---- MODULE Spec2Model ----
(***************************************************************************)
(* Model of src/helpers/wallet.ts: a module holding one active HD wallet   *)
(* and the STARK key pair derived from it, with entropy and mnemonic       *)
(* persisted through a key-value storage.                                  *)
(*                                                                         *)
(* Every function of wallet.ts is an operator of the same name that takes  *)
(* the module state s (the module-level lets, the storage and the network) *)
(* and returns the state it leaves with what it returns or throws.  A      *)
(* synchronous function runs to its end.  An async function runs to its    *)
(* first await and returns a promise; what follows each await runs later,  *)
(* as a promise job, and other calls may run in between.                   *)
(*                                                                         *)
(* In Spec the caller awaits every call before making the next and takes   *)
(* its result (Return); in SpecAsync the caller makes calls while earlier  *)
(* ones are suspended.                                                     *)
(*                                                                         *)
(* The cryptographic collaborators are modelled as free constructors       *)
(* (records tagged with their inputs): they are deterministic and two      *)
(* different inputs give two different outputs.                            *)
(***************************************************************************)
EXTENDS Integers, Sequences, FiniteSets

VARIABLES
    path,           \* wallet.ts:13
    entropy,        \* wallet.ts:14
    mnemonic,       \* wallet.ts:15
    activeIndex,    \* wallet.ts:16
    activeChainId,  \* wallet.ts:17
    wallet,         \* wallet.ts:18
    starkKeyPair,   \* wallet.ts:19
    local,          \* the key-value storage behind getLocal/setLocal
    writes,         \* the keys that setLocal stored, in the order of the calls
    sent,           \* the transactions submitted to the network
    tasks,          \* the calls made and not yet forgotten, in order
    queue,          \* the promise jobs waiting to run, first in first out
    awaited         \* the caller awaits every call before the next one

vars == <<path, entropy, mnemonic, activeIndex, activeChainId, wallet,
          starkKeyPair, local, writes, sent, tasks, queue, awaited>>

-----------------------------------------------------------------------------
(* Bounds of the model *)

MaxEntropy == 2     \* randomBytes(16) draws one of 1..MaxEntropy
MaxIndex == 1       \* account indices 0..MaxIndex
MaxChainId == 3     \* chain ids 1..MaxChainId
MaxCount == 2       \* getAccounts(count) with count in 0..MaxCount
MaxCalls == 2       \* calls that overlapping callers make

-----------------------------------------------------------------------------
(* Values *)

Null == [null |-> TRUE]
Undefined == -1                 \* an omitted optional argument
EmptyString == [str |-> ""]

\* JavaScript's !value for the values of the model
Falsy(value) == value = Null \/ value = EmptyString

ENTROPY_KEY == "ENTROPY"
MNEMONIC_KEY == "MNEMONIC"
OTHER_KEY == "OTHER"            \* a key that is neither of the two
STANDARD_PATH == "m/44'/60'/0'/0"
DEFAULT_ACTIVE_INDEX == 0
DEFAULT_CHAIN_ID == 1
DEFAULT_COUNT == 2
NO_ACTIVE_ACCOUNT == "No Active Account"
FROM_MISMATCH == "Transaction request From doesn't match active account"

Keys == {ENTROPY_KEY, MNEMONIC_KEY, OTHER_KEY}
RandomBytes == 1..MaxEntropy
Indices == 0..MaxIndex
ChainIds == 1..MaxChainId
SUPPORTED_CHAINS == {1, 3, 4, 5, 42, 100}

-----------------------------------------------------------------------------
(* Results of a call *)

Ok(s, value) == [s |-> s, ret |-> value, threw |-> FALSE]
Throw(s, message) == [s |-> s, ret |-> [error |-> message], threw |-> TRUE]

\* the promise of a call that ended without suspending, as res: frames are the
\* suspended functions, innermost first, log what the call printed and arg
\* the caller's argument object as the call left it
Settled(res) ==
    [s |-> res.s, frames |-> <<>>, threw |-> res.threw, ret |-> res.ret,
     log |-> IF "log" \in DOMAIN res THEN res.log ELSE <<>>,
     arg |-> IF "arg" \in DOMAIN res THEN res.arg ELSE Null]

\* await c: the caller is suspended as frame on top of the frames that c left
\* suspended; threw and ret are what the innermost await will receive
Await(c, frame) == [c EXCEPT !.frames = Append(@, frame)]

\* the async function fn returns the promise c: a thenable job registers the
\* promise of fn as a reaction of c, and the reaction job that c queues when
\* it settles settles the promise of fn.  When c has settled already the
\* thenable job queues the reaction job itself, two jobs in a row; while c is
\* pending the thenable job runs before c settles and changes nothing
Adopt(c, fn) ==
    IF c.frames = <<>>
    THEN Await(Await(c, [fn |-> fn, job |-> "thenable"]),
               [fn |-> fn, job |-> "reaction"])
    ELSE Await(c, [fn |-> fn, job |-> "reaction"])

-----------------------------------------------------------------------------
(* Collaborators *)

getLocal(s, key) == s.local[key]
setLocal(s, key, value) ==
    [s EXCEPT !.local[key] = value, !.writes = Append(@, key)]

getChainData(chainId) ==
    IF chainId \in SUPPORTED_CHAINS
    THEN [threw |-> FALSE, rpc_url |-> [rpc |-> chainId]]
    ELSE [threw |-> TRUE, error |-> "ChainId missing or not supported"]

hexlify(bytes) == [hex |-> bytes]
entropyToMnemonic(e) == [phrase |-> e.hex]
fromMnemonic(m, p) == [mnemonic |-> m, path |-> p, provider |-> Null]
privateKey(w) == [key |-> <<w.mnemonic, w.path>>]
address(w) == [addr |-> <<w.mnemonic, w.path>>, checksum |-> TRUE]
toLowerCase(a) == [a EXCEPT !.checksum = FALSE]
JsonRpcProvider(rpcUrl) == [provider |-> rpcUrl]
\* ethers' Wallet.connect returns a new wallet and leaves w as it is
connect(w, provider) == [w EXCEPT !.provider = provider]
keyFromPrivate(pk) == [stark |-> pk]
starkSign(keyPair, msg) == [starkSig |-> <<keyPair, msg>>]
starkVerify(keyPair, msg, sig) == [valid |-> sig = starkSign(keyPair, msg)]

-----------------------------------------------------------------------------
(* wallet.ts *)
(* A statement that uses the result of a call is an operator of its own,   *)
(* applied to that result: res is the result [s, ret, threw] of the call.  *)

isWalletActive(s) ==
    IF Falsy(s.wallet) THEN Ok(s, s.wallet) ELSE Ok(s, Null)

\* path = ...; return path (wallet.ts:65-66)
assignPath(s, p) == Ok([s EXCEPT !.path = p], p)

generatePath(s, index) ==
    assignPath(s, [base |-> STANDARD_PATH, index |-> index])

\* entropy = ...; return entropy (wallet.ts:70-71)
assignEntropy(s, e) == Ok([s EXCEPT !.entropy = e], e)

generateEntropy(s, r) == assignEntropy(s, hexlify(r))

RECURSIVE getData(_, _, _)

getEntropy(s, r) == getData(s, ENTROPY_KEY, r)

\* mnemonic = entropyToMnemonic(...); return mnemonic (wallet.ts:75-76)
assignMnemonic(res) ==
    Ok([res.s EXCEPT !.mnemonic = entropyToMnemonic(res.ret)],
       entropyToMnemonic(res.ret))

\* generateMnemonic encoding a fresh generateEntropy() in place of getEntropy()
generateMnemonic_fresh(s, r) == assignMnemonic(generateEntropy(s, r))

generateMnemonic(s, r) == assignMnemonic(getEntropy(s, r))

\* setLocal(key, value); return value (wallet.ts:59-61)
storeData(res, key) == Ok(setLocal(res.s, key, res.ret), res.ret)

\* getData without the cache test of wallet.ts:48
getData_uncached(s, key, r) ==
    IF key = ENTROPY_KEY
    THEN storeData(generateEntropy(s, r), key)
    ELSE IF key = MNEMONIC_KEY
    THEN storeData(generateMnemonic(s, r), key)
    ELSE Throw(s, "Unknown data key")

\* getData with the throw of wallet.ts:57 after the setLocal of wallet.ts:59
getData_writesBeforeThrow(s, key, r) ==
    IF Falsy(getLocal(s, key))
    THEN IF key = ENTROPY_KEY
         THEN storeData(generateEntropy(s, r), key)
         ELSE IF key = MNEMONIC_KEY
         THEN storeData(generateMnemonic(s, r), key)
         ELSE Throw(setLocal(s, key, EmptyString), "Unknown data key")
    ELSE Ok(s, getLocal(s, key))

getData(s, key, r) ==
    IF Falsy(getLocal(s, key))
    THEN IF key = ENTROPY_KEY
         THEN storeData(generateEntropy(s, r), key)
         ELSE IF key = MNEMONIC_KEY
         THEN storeData(generateMnemonic(s, r), key)
         ELSE Throw(s, "Unknown data key")
    ELSE Ok(s, getLocal(s, key))

getMnemonic(s, r) == getData(s, MNEMONIC_KEY, r)

\* wallet = ...; return wallet (wallet.ts:80-81)
assignWallet(s, w) == Ok([s EXCEPT !.wallet = w], w)

\* fromMnemonic(mnemonic, generatePath(index)), mnemonic the result of
\* getMnemonic() (wallet.ts:80)
walletFromMnemonic(res, index) ==
    assignWallet(generatePath(res.s, index).s,
                 fromMnemonic(res.ret, generatePath(res.s, index).ret))

\* generateWallet deriving the active index instead of its argument
generateWallet_activeIndex(s, index, r) ==
    walletFromMnemonic(getMnemonic(s, r), s.activeIndex)

generateWallet(s, index, r) ==
    walletFromMnemonic(getMnemonic(s, r), index)

RECURSIVE getAccountsLoop(_, _, _, _, _)

\* accounts.push(wallet.address); i++ (wallet.ts:39-41)
getAccountsPush(res, i, count, accounts, r) ==
    getAccountsLoop(res.s, i + 1, count, Append(accounts, address(res.ret)), r)

getAccountsLoop(s, i, count, accounts, r) ==
    IF i < count
    THEN getAccountsPush(generateWallet(s, i, r), i, count, accounts, r)
    ELSE Ok(s, [accounts |-> accounts])

getAccounts(s, count, r) ==
    getAccountsLoop(s, 0, IF count = Undefined THEN DEFAULT_COUNT ELSE count,
                    <<>>, r)

RECURSIVE getWallet(_, _, _, _)

\* generateStarkwareKeyPair keeping a STARK key pair that is cached already
assignStarkKeyPair_ifAbsent(res) ==
    IF res.threw THEN res
    ELSE IF Falsy(res.s.starkKeyPair)
         THEN Ok([res.s EXCEPT
                     !.starkKeyPair = keyFromPrivate(privateKey(res.ret))],
                 keyFromPrivate(privateKey(res.ret)))
         ELSE Ok(res.s, res.s.starkKeyPair)

\* starkKeyPair = keyFromPrivate(privateKey); return starkKeyPair, res what
\* the await of getWallet() gave (wallet.ts:85-87)
assignStarkKeyPair(res) ==
    IF res.threw THEN res
    ELSE Ok([res.s EXCEPT !.starkKeyPair = keyFromPrivate(privateKey(res.ret))],
            keyFromPrivate(privateKey(res.ret)))

\* generateStarkwareKeyPair up to its await (wallet.ts:85)
generateStarkwareKeyPair(s, r) ==
    Await(getWallet(s, Undefined, Undefined, r),
          [fn |-> "generateStarkwareKeyPair"])

\* updateWallet returning the account of activeIndex, not the cached one
connectWallet_activeIndex(res, rpcUrl) ==
    IF res.threw THEN res
    ELSE Ok(res.s,
            fromMnemonic(res.s.local[MNEMONIC_KEY],
                         [base |-> STANDARD_PATH,
                          index |-> res.s.activeIndex]))

\* provider = new JsonRpcProvider(rpcUrl); wallet.connect(provider);
\* return wallet, res what the await of generateStarkwareKeyPair() gave
\* (wallet.ts:123-125): the connected wallet is dropped
connectWallet(res, rpcUrl) ==
    IF res.threw THEN res
    ELSE LET provider == JsonRpcProvider(rpcUrl)
             connected == connect(res.s.wallet, provider)
         IN  Ok(res.s, res.s.wallet)

\* wallet.ts:120-122 up to the await, s the state after wallet.ts:118-119
updateWalletFrom(s, index, chainId, chainData, r) ==
    IF chainData.threw THEN Settled(Throw(s, chainData.error))
    ELSE Await(generateStarkwareKeyPair(generateWallet(s, index, r).s, r),
               [fn |-> "updateWallet", index |-> index, chainId |-> chainId,
                rpcUrl |-> chainData.rpc_url])

\* updateWallet up to its await (wallet.ts:118-122)
updateWallet(s, index, chainId, r) ==
    updateWalletFrom(
        [s EXCEPT !.activeIndex = index, !.activeChainId = chainId],
        index, chainId, getChainData(chainId), r)

\* initWallet returns the promise of updateWallet (wallet.ts:114): its own
\* promise follows it
initWallet(s, index, chainId, r) ==
    Adopt(updateWallet(
              s,
              IF index = Undefined THEN DEFAULT_ACTIVE_INDEX ELSE index,
              IF chainId = Undefined THEN DEFAULT_CHAIN_ID ELSE chainId,
              r),
          "initWallet")

\* getWallet up to its await, or to its return when it does not re-derive
getWallet(s, index, chainId, r) ==
    IF Falsy(s.wallet) \/ s.activeIndex = index \/ s.activeChainId = chainId
    THEN Await(initWallet(s, index, chainId, r), [fn |-> "getWallet"])
    ELSE Settled(Ok(s, s.wallet))

\* getStakwareKeyPair returning what is cached, derived or not
getStakwareKeyPair_cached(s, r) == Settled(Ok(s, s.starkKeyPair))

\* getStakwareKeyPair up to its await, or to its return
getStakwareKeyPair(s, r) ==
    IF Falsy(s.starkKeyPair)
    THEN Await(generateStarkwareKeyPair(s, r), [fn |-> "getStakwareKeyPair"])
    ELSE Settled(Ok(s, s.starkKeyPair))

\* keyFromPublic(keyPair.getPublic(true, "hex")).pub.getX(), res what the
\* await of getStakwareKeyPair() gave (wallet.ts:108-110)
starkKeyOf(res) ==
    IF res.threw THEN res ELSE Ok(res.s, [starkKey |-> res.ret.stark])

\* getStarkKey up to its await (wallet.ts:107)
getStarkKey(s, r) == Await(getStakwareKeyPair(s, r), [fn |-> "getStarkKey"])

\* delete object[field]
Delete(object, field) == [f \in DOMAIN object \ {field} |-> object[f]]
\* object[field] = value
Assign(object, field, value) ==
    [f \in DOMAIN object \cup {field} |->
        IF f = field THEN value ELSE object[f]]
\* object.field is truthy
Truthy(object, field) == field \in DOMAIN object /\ ~Falsy(object[field])

\* ethers' Wallet.sendTransaction
walletSendTransaction(s, w, tx) ==
    IF Falsy(w.provider)
    THEN Throw(s, "missing provider")
    ELSE Ok([s EXCEPT !.sent = @ \cup {[tx |-> tx, signer |-> privateKey(w),
                                        provider |-> w.provider]}],
            [hash |-> <<privateKey(w), tx>>])

\* if (transaction.from) delete transaction.from (wallet.ts:134-136)
stripFrom(tx) == IF Truthy(tx, "from") THEN Delete(tx, "from") ELSE tx

\* if ("gas" in transaction) ... (wallet.ts:139-142)
renameGas(tx) ==
    IF "gas" \in DOMAIN tx
    THEN Delete(Assign(tx, "gasLimit", tx["gas"]), "gas")
    ELSE tx

\* the console.error of wallet.ts:130-132
fromMismatch(s, tx) ==
    IF Truthy(tx, "from")
       /\ toLowerCase(tx["from"]) # toLowerCase(address(s.wallet))
    THEN <<FROM_MISMATCH>>
    ELSE <<>>

\* return result.hash, res the result of wallet.sendTransaction(transaction)
\* (wallet.ts:144-145)
returnHash(res, tx, log) ==
    [s |-> res.s, threw |-> res.threw, arg |-> tx, log |-> log,
     ret |-> IF res.threw THEN res.ret ELSE res.ret.hash]

\* sendTransaction throwing where it has no account
sendTransaction_throwing(s, tx) ==
    IF ~Falsy(s.wallet)
    THEN returnHash(walletSendTransaction(s, s.wallet, renameGas(stripFrom(tx))),
                    renameGas(stripFrom(tx)), fromMismatch(s, tx))
    ELSE [s |-> s, threw |-> TRUE, arg |-> tx,
          ret |-> [error |-> NO_ACTIVE_ACCOUNT], log |-> <<>>]

sendTransaction(s, tx) ==
    IF ~Falsy(s.wallet)
    THEN returnHash(walletSendTransaction(s, s.wallet, renameGas(stripFrom(tx))),
                    renameGas(stripFrom(tx)), fromMismatch(s, tx))
    ELSE [s |-> s, threw |-> FALSE, arg |-> tx, ret |-> Null,
          log |-> <<NO_ACTIVE_ACCOUNT>>]

signTransaction(s, data) ==
    IF ~Falsy(s.wallet)
    THEN [s |-> s, threw |-> FALSE, arg |-> stripFrom(data),
          ret |-> [signedTransaction |->
                     <<privateKey(s.wallet), stripFrom(data)>>]]
    ELSE [s |-> s, threw |-> FALSE, arg |-> data, ret |-> Null,
          log |-> <<NO_ACTIVE_ACCOUNT>>]

isHexString(message) == message.isHex
arrayify(message) == [bytes |-> message.text]

signMessage(s, data) ==
    IF ~Falsy(s.wallet)
    THEN IF isHexString(data)
         THEN Ok(s, [signature |-> <<privateKey(s.wallet), arrayify(data)>>])
         ELSE Throw(s, "invalid arrayify value")
    ELSE [s |-> s, threw |-> FALSE, ret |-> Null,
          log |-> <<NO_ACTIVE_ACCOUNT>>]

signPersonalMessage(s, message) ==
    IF ~Falsy(s.wallet)
    THEN Ok(s, [personalSignature |->
                  <<privateKey(s.wallet),
                    IF isHexString(message) THEN arrayify(message)
                    ELSE message>>])
    ELSE [s |-> s, threw |-> FALSE, ret |-> Null,
          log |-> <<NO_ACTIVE_ACCOUNT>>]

\* the four signing functions await a result that their call has computed
\* (wallet.ts:144, 157, 168-169, 179), unless the call threw or found no
\* account: res is what the call computed from the state s
awaitResult(s, res, fn) ==
    IF res.threw \/ Falsy(s.wallet) THEN Settled(res)
    ELSE Await(Settled(res), [fn |-> fn])

\* signMessage awaits twice, signDigest and then joinSignature
\* (wallet.ts:168-169)
awaitResults(s, res, fn) ==
    IF res.threw \/ Falsy(s.wallet) THEN Settled(res)
    ELSE Await(awaitResult(s, res, fn), [fn |-> fn])

\* return starkwareCrypto.sign(keyPair, msg), res what the await of
\* getStakwareKeyPair() gave (wallet.ts:191)
signWithKeyPair(res, msg) ==
    IF res.threw THEN res ELSE Ok(res.s, starkSign(res.ret, msg))

\* starkwareSign up to its await (wallet.ts:190)
starkwareSign(s, msg, r) ==
    Await(getStakwareKeyPair(s, r), [fn |-> "starkwareSign", msg |-> msg])

\* return starkwareCrypto.verify(keyPair, msg, sig) (wallet.ts:196)
verifyWithKeyPair(res, msg, sig) ==
    IF res.threw THEN res ELSE Ok(res.s, starkVerify(res.ret, msg, sig))

\* starkwareVerify up to its await (wallet.ts:195)
starkwareVerify(s, msg, sig, r) ==
    Await(getStakwareKeyPair(s, r),
          [fn |-> "starkwareVerify", msg |-> msg, sig |-> sig])

\* what follows the await of frame, res what the awaited promise gave:
\* initWallet, getWallet (wallet.ts:31-33), getStakwareKeyPair
\* (wallet.ts:101-103) and the signing functions pass on what they received
resume(frame, res) ==
    CASE frame.fn = "generateStarkwareKeyPair" -> assignStarkKeyPair(res)
      [] frame.fn = "updateWallet" -> connectWallet(res, frame.rpcUrl)
      [] frame.fn = "getStarkKey" -> starkKeyOf(res)
      [] frame.fn = "starkwareSign" -> signWithKeyPair(res, frame.msg)
      [] frame.fn = "starkwareVerify" ->
            verifyWithKeyPair(res, frame.msg, frame.sig)
      [] OTHER -> res

-----------------------------------------------------------------------------
(* Inputs *)

\* the account of an index under the mnemonic of an entropy
Account(e, index) ==
    fromMnemonic(entropyToMnemonic(e), [base |-> STANDARD_PATH, index |-> index])

\* the values a caller passes as from: the addresses of the accounts of the
\* first entropy, as the wallet prints them and in lower case
Accounts == {Account(hexlify(1), i) : i \in Indices}
Messages == {[text |-> "hello", isHex |-> FALSE],
             [text |-> "0x1234", isHex |-> TRUE]}
FromValues == {address(a) : a \in Accounts}
                 \cup {toLowerCase(address(Account(hexlify(1), 0)))}
GasValues == {21000}
GasLimitValues == {50000}
Transactions ==
    {[f \in fields |->
        IF f = "from" THEN from ELSE IF f = "gas" THEN gas ELSE gasLimit] :
        fields \in SUBSET {"from", "gas", "gasLimit"},
        from \in FromValues, gas \in GasValues, gasLimit \in GasLimitValues}
\* wallet.sign takes the fields of an ethers transaction: gas is not one
UnsignedTransactions == {tx \in Transactions : "gas" \notin DOMAIN tx}
StarkSignatures ==
    {starkSign(keyFromPrivate(privateKey(a)), m) :
        a \in Accounts, m \in {n \in Messages : n.isHex}}
\* what the storage holds under OTHER_KEY when the module is loaded
StoredOther == {Null, EmptyString, [str |-> "session"]}

-----------------------------------------------------------------------------
(* The state machine *)

\* randomBytes is called only when no entropy is stored (or by generateEntropy
\* itself): the draw of a call that generates nothing is left at 1, and so
\* is the one draw that overlapping calls make
Draws == IF Falsy(local[ENTROPY_KEY]) /\ awaited THEN RandomBytes ELSE {1}

\* the selections that overlapping calls ask for: two of supported chains,
\* one of a chain that getChainData does not know
Selections ==
    {[index |-> 0, chainId |-> 1], [index |-> 1, chainId |-> 3],
     [index |-> 1, chainId |-> 2]}
\* the arguments (index, chainId) of updateWallet
UpdateRequests ==
    IF awaited THEN [index : Indices, chainId : ChainIds] ELSE Selections
\* the arguments (index?, chainId?) of getWallet and initWallet: an index
\* left out is the default one, the first, and the index given is the last
WalletRequests ==
    IF awaited
    THEN [index : {MaxIndex, Undefined}, chainId : ChainIds \cup {Undefined}]
    ELSE Selections \cup {[index |-> Undefined, chainId |-> Undefined]}
\* the argument count of getAccounts
Counts == IF awaited THEN (0..MaxCount) \cup {Undefined} ELSE {DEFAULT_COUNT}
\* the argument index of generatePath
PathRequests == IF awaited THEN Indices ELSE {MaxIndex}
\* the argument index of generateWallet
AccountRequests == IF awaited THEN Indices ELSE {sel.index : sel \in Selections}
\* what randomBytes gives generateEntropy when it is called directly
EntropyDraws == RandomBytes
\* the argument transaction of sendTransaction
TransactionRequests ==
    IF awaited THEN Transactions
    ELSE {tx \in Transactions : DOMAIN tx = {"gas"}}
\* the argument data of signTransaction
DataRequests ==
    IF awaited THEN UnsignedTransactions
    ELSE {tx \in UnsignedTransactions : DOMAIN tx = {"gasLimit"}}
\* the arguments data, message and msg of the signing functions
MessageRequests == IF awaited THEN Messages ELSE {m \in Messages : m.isHex}
\* the argument sig of starkwareVerify
SignatureRequests ==
    IF awaited THEN StarkSignatures
    ELSE {starkSign(keyFromPrivate(privateKey(Account(hexlify(1), 0))), m) :
            m \in {n \in Messages : n.isHex}}

State ==
    [path |-> path, entropy |-> entropy, mnemonic |-> mnemonic,
     activeIndex |-> activeIndex, activeChainId |-> activeChainId,
     wallet |-> wallet, starkKeyPair |-> starkKeyPair,
     local |-> local, writes |-> writes, sent |-> sent]

\* the module as it is loaded
Loaded ==
    /\ path = Null
    /\ entropy = Null
    /\ mnemonic = Null
    /\ activeIndex = DEFAULT_ACTIVE_INDEX
    /\ activeChainId = DEFAULT_CHAIN_ID
    /\ wallet = Null
    /\ starkKeyPair = Null
    /\ \E other \in StoredOther :
          local = [k \in Keys |-> IF k = OTHER_KEY THEN other ELSE Null]
    /\ writes = <<>>
    /\ sent = {}
    /\ tasks = <<>>
    /\ queue = <<>>

Init == Loaded /\ awaited = TRUE

\* the frame of updateWallet among frames, Null when updateWallet did not
\* reach wallet.ts:122
Rederiving(frames) ==
    IF \E i \in DOMAIN frames : frames[i].fn = "updateWallet"
    THEN frames[CHOOSE i \in DOMAIN frames : frames[i].fn = "updateWallet"]
    ELSE Null

\* the call of record c has run, as far as its first await or to its end, and
\* left p: the state is what it left, the caller holds its promise, and the
\* job that resumes its innermost suspended function is queued
Started(p, c) ==
    /\ Len(tasks) < MaxCalls
    /\ awaited => tasks = <<>>
    /\ path' = p.s.path
    /\ entropy' = p.s.entropy
    /\ mnemonic' = p.s.mnemonic
    /\ activeIndex' = p.s.activeIndex
    /\ activeChainId' = p.s.activeChainId
    /\ wallet' = p.s.wallet
    /\ starkKeyPair' = p.s.starkKeyPair
    /\ local' = p.s.local
    /\ writes' = p.s.writes
    /\ sent' = p.s.sent
    /\ tasks' = Append(tasks,
          [call |-> c, pre |-> State,
           overlaps |-> {id \in DOMAIN tasks : tasks[id].status = "pending"},
           frames |-> p.frames,
           rederives |-> Rederiving(p.frames),
           status |-> IF p.frames # <<>> THEN "pending"
                      ELSE IF p.threw THEN "threw" ELSE "returned",
           value |-> IF p.frames # <<>> THEN Null ELSE p.ret,
           log |-> p.log, arg |-> p.arg])
    /\ queue' = IF p.frames # <<>>
                THEN Append(queue, [task |-> Len(tasks) + 1,
                                    threw |-> p.threw, ret |-> p.ret])
                ELSE queue
    /\ UNCHANGED awaited

\* the call c of a synchronous function ran to its end as res
Commit(res, c) == Started(Settled(res), c)

IsWalletActive ==
    Commit(isWalletActive(State), [op |-> "isWalletActive"])

GetWallet ==
    \E req \in WalletRequests, r \in Draws :
        Started(getWallet(State, req.index, req.chainId, r),
                [op |-> "getWallet", index |-> req.index,
                 chainId |-> req.chainId])

GetAccounts ==
    \E count \in Counts, r \in Draws :
        Commit(getAccounts(State, count, r),
               [op |-> "getAccounts", count |-> count])

GetData ==
    \E key \in Keys, r \in Draws :
        Commit(getData(State, key, r), [op |-> "getData", key |-> key])

GeneratePath ==
    \E index \in PathRequests :
        Commit(generatePath(State, index),
               [op |-> "generatePath", index |-> index])

GenerateEntropy ==
    \E r \in EntropyDraws :
        Commit(generateEntropy(State, r), [op |-> "generateEntropy"])

GenerateMnemonic ==
    \E r \in Draws :
        Commit(generateMnemonic(State, r), [op |-> "generateMnemonic"])

GenerateWallet ==
    \E index \in AccountRequests, r \in Draws :
        Commit(generateWallet(State, index, r),
               [op |-> "generateWallet", index |-> index])

GenerateStarkwareKeyPair ==
    \E r \in Draws :
        Started(generateStarkwareKeyPair(State, r),
                [op |-> "generateStarkwareKeyPair"])

GetEntropy ==
    \E r \in Draws :
        Commit(getEntropy(State, r), [op |-> "getEntropy"])

GetMnemonic ==
    \E r \in Draws :
        Commit(getMnemonic(State, r), [op |-> "getMnemonic"])

GetStakwareKeyPair ==
    \E r \in Draws :
        Started(getStakwareKeyPair(State, r), [op |-> "getStakwareKeyPair"])

GetStarkKey ==
    \E r \in Draws :
        Started(getStarkKey(State, r), [op |-> "getStarkKey"])

InitWallet ==
    \E req \in WalletRequests, r \in Draws :
        Started(initWallet(State, req.index, req.chainId, r),
                [op |-> "initWallet", index |-> req.index,
                 chainId |-> req.chainId])

UpdateWallet ==
    \E req \in UpdateRequests, r \in Draws :
        Started(updateWallet(State, req.index, req.chainId, r),
                [op |-> "updateWallet", index |-> req.index,
                 chainId |-> req.chainId])

SendTransaction ==
    \E tx \in TransactionRequests :
        Started(awaitResult(State, sendTransaction(State, tx),
                            "sendTransaction"),
                [op |-> "sendTransaction", tx |-> tx])

SignTransaction ==
    \E data \in DataRequests :
        Started(awaitResult(State, signTransaction(State, data),
                            "signTransaction"),
                [op |-> "signTransaction", tx |-> data])

SignMessage ==
    \E data \in MessageRequests :
        Started(awaitResults(State, signMessage(State, data), "signMessage"),
                [op |-> "signMessage", msg |-> data])

SignPersonalMessage ==
    \E message \in MessageRequests :
        Started(awaitResult(State, signPersonalMessage(State, message),
                            "signPersonalMessage"),
                [op |-> "signPersonalMessage", msg |-> message])

StarkwareSign ==
    \E msg \in MessageRequests, r \in Draws :
        Started(starkwareSign(State, msg, r),
                [op |-> "starkwareSign", msg |-> msg])

StarkwareVerify ==
    \E msg \in MessageRequests, sig \in SignatureRequests, r \in Draws :
        Started(starkwareVerify(State, msg, sig, r),
                [op |-> "starkwareVerify", msg |-> msg, sig |-> sig])

\* the innermost suspended function of task id has run to its end as res:
\* the job of the function that awaits it is queued, or the promise of the
\* task is settled
Resumed(id, res) ==
    /\ path' = res.s.path
    /\ entropy' = res.s.entropy
    /\ mnemonic' = res.s.mnemonic
    /\ activeIndex' = res.s.activeIndex
    /\ activeChainId' = res.s.activeChainId
    /\ wallet' = res.s.wallet
    /\ starkKeyPair' = res.s.starkKeyPair
    /\ local' = res.s.local
    /\ writes' = res.s.writes
    /\ sent' = res.s.sent
    /\ tasks' = [tasks EXCEPT ![id] =
          [@ EXCEPT !.frames = Tail(@),
                    !.status = IF Len(tasks[id].frames) > 1 THEN "pending"
                               ELSE IF res.threw THEN "threw" ELSE "returned",
                    !.value = IF Len(tasks[id].frames) > 1 THEN Null
                              ELSE res.ret]]
    /\ queue' = IF Len(tasks[id].frames) > 1
                THEN Append(Tail(queue), [task |-> id, threw |-> res.threw,
                                          ret |-> res.ret])
                ELSE Tail(queue)
    /\ UNCHANGED awaited

\* the event loop runs the first job of the queue
Resume ==
    /\ queue # <<>>
    /\ Resumed(Head(queue).task,
               resume(Head(tasks[Head(queue).task].frames),
                      [s |-> State, ret |-> Head(queue).ret,
                       threw |-> Head(queue).threw]))

\* the caller takes the result of the call it awaited
Return ==
    /\ awaited
    /\ tasks # <<>>
    /\ queue = <<>>
    /\ tasks' = <<>>
    /\ UNCHANGED <<path, entropy, mnemonic, activeIndex, activeChainId,
                   wallet, starkKeyPair, local, writes, sent, queue, awaited>>

Next ==
    \/ IsWalletActive
    \/ GetWallet
    \/ GetAccounts
    \/ GetData
    \/ GeneratePath
    \/ GenerateEntropy
    \/ GenerateMnemonic
    \/ GenerateWallet
    \/ GenerateStarkwareKeyPair
    \/ GetEntropy
    \/ GetMnemonic
    \/ GetStakwareKeyPair
    \/ GetStarkKey
    \/ InitWallet
    \/ UpdateWallet
    \/ SendTransaction
    \/ SignTransaction
    \/ SignMessage
    \/ SignPersonalMessage
    \/ StarkwareSign
    \/ StarkwareVerify
    \/ Resume
    \/ Return

\* the caller awaits every call before it makes the next
Spec == Init /\ [][Next]_vars

\* the caller makes its calls without awaiting the earlier ones; none of
\* these calls reads the storage under OTHER_KEY, which starts empty
InitAsync == Loaded /\ local[OTHER_KEY] = Null /\ awaited = FALSE

NextAsync ==
    \/ IsWalletActive
    \/ GetWallet
    \/ GetAccounts
    \/ GetData
    \/ GeneratePath
    \/ GenerateEntropy
    \/ GenerateMnemonic
    \/ GenerateWallet
    \/ GenerateStarkwareKeyPair
    \/ GetEntropy
    \/ GetMnemonic
    \/ GetStakwareKeyPair
    \/ GetStarkKey
    \/ InitWallet
    \/ UpdateWallet
    \/ SendTransaction
    \/ SignTransaction
    \/ SignMessage
    \/ SignPersonalMessage
    \/ StarkwareSign
    \/ StarkwareVerify
    \/ Resume

\* the event loop does not stop while jobs are queued
SpecAsync == InitAsync /\ [][NextAsync]_vars /\ WF_vars(Resume)

\* the caller starts with getStakwareKeyPair or a function that awaits it
\* (wallet.ts:107, 190, 195) and makes its other calls while that call is
\* suspended or after it
NextStark ==
    \/ tasks = <<>> /\ GetStakwareKeyPair
    \/ tasks = <<>> /\ GetStarkKey
    \/ tasks = <<>> /\ StarkwareSign
    \/ tasks = <<>> /\ StarkwareVerify
    \/ tasks # <<>> /\ IsWalletActive
    \/ tasks # <<>> /\ GetWallet
    \/ tasks # <<>> /\ GetAccounts
    \/ tasks # <<>> /\ GetData
    \/ tasks # <<>> /\ GeneratePath
    \/ tasks # <<>> /\ GenerateEntropy
    \/ tasks # <<>> /\ GenerateMnemonic
    \/ tasks # <<>> /\ GenerateWallet
    \/ tasks # <<>> /\ GenerateStarkwareKeyPair
    \/ tasks # <<>> /\ GetEntropy
    \/ tasks # <<>> /\ GetMnemonic
    \/ tasks # <<>> /\ GetStakwareKeyPair
    \/ tasks # <<>> /\ GetStarkKey
    \/ tasks # <<>> /\ InitWallet
    \/ tasks # <<>> /\ UpdateWallet
    \/ tasks # <<>> /\ SendTransaction
    \/ tasks # <<>> /\ SignTransaction
    \/ tasks # <<>> /\ SignMessage
    \/ tasks # <<>> /\ SignPersonalMessage
    \/ tasks # <<>> /\ StarkwareSign
    \/ tasks # <<>> /\ StarkwareVerify
    \/ tasks # <<>> /\ Resume

SpecStark == InitAsync /\ [][NextStark]_vars /\ WF_vars(Resume)

-----------------------------------------------------------------------------
(* What the caller observes of the call it awaited *)

NoCall == [op |-> "none"]
Last == tasks[Len(tasks)]
\* the call has settled
Done == awaited /\ tasks # <<>> /\ Last.status # "pending"
\* the call and its arguments
call == IF Done THEN Last.call ELSE NoCall
\* the state in which the call started
pre == IF Done THEN Last.pre ELSE Null
\* what the call returned or threw, and what it logged
ret ==
    IF Done
    THEN [threw |-> Last.status = "threw", value |-> Last.value,
          log |-> Last.log]
    ELSE Null
\* the caller's argument object after the call
transaction == IF Done THEN Last.arg ELSE Null

-----------------------------------------------------------------------------
(* Properties *)

\* the account of an index under the stored mnemonic
Derived(index) ==
    fromMnemonic(local[MNEMONIC_KEY], [base |-> STANDARD_PATH, index |-> index])

SigningOps ==
    {"sendTransaction", "signTransaction", "signMessage", "signPersonalMessage"}
StarkOps == {"starkwareSign", "starkwareVerify"}

\* C1: whenever a wallet and a STARK key pair are both cached, the STARK key
\* pair is the one derived from the private key of the cached wallet.
C1_StarkKeyPairOfCachedWallet ==
    (~Falsy(wallet) /\ ~Falsy(starkKeyPair))
        => starkKeyPair = keyFromPrivate(privateKey(wallet))

\* C2: getWallet(index, chainId) called with a cached account and a selection
\* that differs from (activeIndex, activeChainId) in the index, the chain or
\* both re-derives: it ends with activeIndex = index, activeChainId = chainId
\* and returns the account derived from index.
C2_RederivesWhenSelectionDiffers ==
    (/\ call.op = "getWallet"
     /\ call.index \in Indices
     /\ call.chainId \in ChainIds
     /\ ~Falsy(pre.wallet)
     /\ (call.index # pre.activeIndex \/ call.chainId # pre.activeChainId)
     /\ ~ret.threw)
        => (/\ activeIndex = call.index
            /\ activeChainId = call.chainId
            /\ ret.value = Derived(call.index))

\* C3: whenever a wallet is cached, it is the account derived from the current
\* activeIndex.
C3_CachedWalletOfActiveIndex ==
    ~Falsy(wallet) => wallet = Derived(activeIndex)

\* C4: with no account cached, sendTransaction, signTransaction, signMessage
\* and signPersonalMessage return null without throwing (logging "No Active
\* Account"), submit nothing and leave activeIndex, activeChainId, the cached
\* wallet, the cached STARK key pair and the storage unchanged.
C4_SigningWithoutAccountReturnsNull ==
    (call.op \in SigningOps /\ Falsy(pre.wallet))
        => (/\ ret = [threw |-> FALSE, value |-> Null,
                      log |-> <<NO_ACTIVE_ACCOUNT>>]
            /\ sent = pre.sent
            /\ activeIndex = pre.activeIndex
            /\ activeChainId = pre.activeChainId
            /\ wallet = pre.wallet
            /\ starkKeyPair = pre.starkKeyPair
            /\ local = pre.local)

C4_Witness ==
    /\ call.op = "sendTransaction"
    /\ Falsy(pre.wallet)
    /\ "gas" \in DOMAIN call.tx
    /\ ret.value = Null

\* C5: starkwareSign and starkwareVerify called with no cached account
\* return null without throwing and derive or cache neither an account nor a
\* STARK key pair.
C5_StarkRequiresActiveAccount ==
    (call.op \in StarkOps /\ Falsy(pre.wallet))
        => (/\ ~ret.threw
            /\ Falsy(ret.value)
            /\ wallet = pre.wallet
            /\ starkKeyPair = pre.starkKeyPair)

\* C6: once entropy (the mnemonic) is stored, no call changes the stored
\* value, and every getEntropy() (getMnemonic()) returns it without generating
\* anything; what these two return is always what the storage then holds, so
\* two consecutive calls return the same value.
C6_StoredSecretsNeverRegenerated ==
    /\ (call # NoCall /\ ~Falsy(pre.local[ENTROPY_KEY]))
          => (/\ local[ENTROPY_KEY] = pre.local[ENTROPY_KEY]
              /\ call.op = "getEntropy"
                    => (/\ ret = [threw |-> FALSE, log |-> <<>>,
                                  value |-> pre.local[ENTROPY_KEY]]
                        /\ entropy = pre.entropy))
    /\ (call # NoCall /\ ~Falsy(pre.local[MNEMONIC_KEY]))
          => (/\ local[MNEMONIC_KEY] = pre.local[MNEMONIC_KEY]
              /\ call.op = "getMnemonic"
                    => (/\ ret = [threw |-> FALSE, log |-> <<>>,
                                  value |-> pre.local[MNEMONIC_KEY]]
                        /\ mnemonic = pre.mnemonic
                        /\ entropy = pre.entropy))
    /\ call.op = "getEntropy" => ret.value = local[ENTROPY_KEY]
    /\ call.op = "getMnemonic" => ret.value = local[MNEMONIC_KEY]

C6_Witness ==
    /\ call.op = "getEntropy"
    /\ pre.local[ENTROPY_KEY] = hexlify(MaxEntropy)
    /\ pre.entropy = hexlify(1)
    /\ ret.value = hexlify(MaxEntropy)

\* C7: for fixed stored entropy, generateWallet(i) returns the account of
\* index i under the mnemonic of that entropy (same address, same private
\* key), whatever the calls before it and whatever the active index, the
\* active chain and the cached wallet are.
C7_GenerateWalletDeterministic ==
    call.op = "generateWallet"
        => (/\ ~ret.threw
            /\ ret.value = Account(local[ENTROPY_KEY], call.index)
            /\ address(ret.value)
                 = address(Account(local[ENTROPY_KEY], call.index))
            /\ privateKey(ret.value)
                 = privateKey(Account(local[ENTROPY_KEY], call.index))
            /\ ~Falsy(pre.local[ENTROPY_KEY])
                  => local[ENTROPY_KEY] = pre.local[ENTROPY_KEY])

C7_Witness ==
    /\ call.op = "generateWallet"
    /\ ~Falsy(pre.local[ENTROPY_KEY])
    /\ ~Falsy(pre.wallet)
    /\ call.index # pre.activeIndex
    /\ call.index # pre.wallet.path.index
    /\ ret.value = Account(pre.local[ENTROPY_KEY], call.index)

\* C8 (as claimed): getData(key) with a key that is neither ENTROPY_KEY nor
\* MNEMONIC_KEY fails with "Unknown data key" and writes nothing, whatever the
\* storage holds, a value under that key included.
C8_UnknownKeyAlwaysFails ==
    (call.op = "getData" /\ call.key \notin {ENTROPY_KEY, MNEMONIC_KEY})
        => (/\ ret.threw
            /\ ret.value = [error |-> "Unknown data key"]
            /\ local = pre.local)

\* C8 (amended): getData(key) with a key that is neither ENTROPY_KEY nor
\* MNEMONIC_KEY writes nothing; it fails with "Unknown data key" when the
\* storage holds no (truthy) value under that key, and returns the stored
\* value when it holds one.
C8_UnknownKeyFailsUnlessStored ==
    (call.op = "getData" /\ call.key \notin {ENTROPY_KEY, MNEMONIC_KEY})
        => (/\ local = pre.local
            /\ IF Falsy(pre.local[call.key])
               THEN ret.threw /\ ret.value = [error |-> "Unknown data key"]
               ELSE ~ret.threw /\ ret.value = pre.local[call.key])

C8_Witness ==
    /\ call.op = "getData"
    /\ call.key = OTHER_KEY
    /\ ret.threw
    /\ ~Falsy(local[ENTROPY_KEY])

\* C9: after a getWallet(i, c) or updateWallet(i, c) call that returns, the
\* cached account is the account of index i and the cached STARK key pair is
\* derived from its private key.
C9_AccountAndStarkOfRequestedIndex ==
    (/\ call.op \in {"getWallet", "updateWallet"}
     /\ call.index \in Indices
     /\ call.chainId \in ChainIds
     /\ ~ret.threw)
        => (/\ wallet = Derived(call.index)
            /\ starkKeyPair = keyFromPrivate(privateKey(wallet)))

\* getWallet re-derives (wallet.ts:30)
Rederives ==
    \/ call.op = "updateWallet"
    \/ /\ call.op = "getWallet"
       /\ \/ Falsy(pre.wallet)
          \/ pre.activeIndex = call.index
          \/ pre.activeChainId = call.chainId

\* C10: after getWallet(i, c) or updateWallet(i, c) re-derives, the cached
\* account holds a connection to the RPC endpoint of chain c.
C10_CachedAccountConnected ==
    (Rederives /\ ~ret.threw)
        => wallet.provider
             = JsonRpcProvider(getChainData(activeChainId).rpc_url)

\* the operations of getActiveAccount
ActiveSelectionOps == {"getWallet", "initWallet", "updateWallet"}

\* C11: getWallet (with initWallet and updateWallet) is the only exported
\* operation that changes activeIndex, activeChainId, the cached wallet or the
\* cached STARK key pair: every other operation, in particular getAccounts,
\* getEntropy, getMnemonic, the signing functions and the STARK functions,
\* leaves all four as they were.
C11_OnlyGetWalletMutatesSelection ==
    (call.op \notin ActiveSelectionOps \cup {NoCall.op})
        => (/\ activeIndex = pre.activeIndex
            /\ activeChainId = pre.activeChainId
            /\ wallet = pre.wallet
            /\ starkKeyPair = pre.starkKeyPair)

\* the transaction tx was submitted by the account w
SubmittedBy(tx, w) ==
    \E e \in sent : e.tx = tx /\ e.signer = privateKey(w)

\* C12: sendTransaction(tx) with an account cached submits a transaction
\* without a from key and without a gas key; its gasLimit is the gas of tx
\* when tx has gas and no gasLimit, and the gasLimit of tx, present or absent,
\* when tx has no gas.
C12_GasRenamedToGasLimit ==
    (call.op = "sendTransaction" /\ ~Falsy(pre.wallet))
        => \E e \in sent :
              /\ e.signer = privateKey(pre.wallet)
              /\ "from" \notin DOMAIN e.tx
              /\ "gas" \notin DOMAIN e.tx
              /\ ("gas" \in DOMAIN call.tx /\ "gasLimit" \notin DOMAIN call.tx)
                    => (/\ "gasLimit" \in DOMAIN e.tx
                        /\ e.tx["gasLimit"] = call.tx["gas"])
              /\ ("gas" \notin DOMAIN call.tx)
                    => (/\ "gasLimit" \in DOMAIN e.tx
                              <=> "gasLimit" \in DOMAIN call.tx
                        /\ "gasLimit" \in DOMAIN e.tx
                              => e.tx["gasLimit"] = call.tx["gasLimit"])

\* C13: sendTransaction(tx) with an account cached and a from that differs
\* from the address of the cached account does not fail: it strips from,
\* submits the transaction through the cached account and returns its hash.
C13_FromMismatchStillSends ==
    (/\ call.op = "sendTransaction"
     /\ ~Falsy(pre.wallet)
     /\ "from" \in DOMAIN call.tx
     /\ toLowerCase(call.tx["from"]) # toLowerCase(address(pre.wallet)))
        => (/\ ~ret.threw
            /\ "from" \notin DOMAIN transaction
            /\ SubmittedBy(transaction, pre.wallet)
            /\ ret.value = <<privateKey(pre.wallet), transaction>>)

\* C19: isWalletActive() returns a truthy value when a wallet is cached and
\* null when none is.
C19_IsWalletActiveTellsCached ==
    (call.op = "isWalletActive")
        => (/\ ~ret.threw
            /\ Falsy(pre.wallet) => ret.value = Null
            /\ ~Falsy(pre.wallet) => ~Falsy(ret.value))

\* C18: a getWallet, initWallet or updateWallet call that fails because the
\* chain metadata lookup throws for the requested chainId leaves activeIndex,
\* activeChainId, the cached wallet and the cached STARK key pair as they
\* were before the call.
C18_FailedLookupChangesNothing ==
    (call.op \in ActiveSelectionOps /\ ret.threw)
        => (/\ activeIndex = pre.activeIndex
            /\ activeChainId = pre.activeChainId
            /\ wallet = pre.wallet
            /\ starkKeyPair = pre.starkKeyPair)

\* C14: whenever a mnemonic is stored, entropy is stored too and the stored
\* mnemonic is the encoding of the stored entropy; the storage receives the
\* entropy before it receives the mnemonic, whichever operation generates
\* them.
C14_MnemonicEncodesStoredEntropy ==
    /\ ~Falsy(local[MNEMONIC_KEY])
          => (/\ ~Falsy(local[ENTROPY_KEY])
              /\ local[MNEMONIC_KEY] = entropyToMnemonic(local[ENTROPY_KEY]))
    /\ \A j \in DOMAIN writes :
          writes[j] = MNEMONIC_KEY
              => \E i \in 1..(j - 1) : writes[i] = ENTROPY_KEY

C14_Witness ==
    /\ call.op \in {"getMnemonic", "generateWallet", "getAccounts"}
    /\ Falsy(pre.local[ENTROPY_KEY])
    /\ Falsy(pre.local[MNEMONIC_KEY])
    /\ writes = <<ENTROPY_KEY, MNEMONIC_KEY>>
    /\ local[MNEMONIC_KEY] = entropyToMnemonic(hexlify(MaxEntropy))

\* the calls that ran updateWallet as far as wallet.ts:122, in the order in
\* which they started
Rederivers == {id \in DOMAIN tasks : tasks[id].rederives # Null}
\* the account that the call id generated at wallet.ts:121
Generated(id) == Derived(tasks[id].rederives.index)
\* how many accounts the getAccounts call id listed
Listed(id) ==
    IF tasks[id].call.count = Undefined THEN DEFAULT_COUNT
    ELSE tasks[id].call.count
\* the calls that assigned the cached account: the calls that re-derived,
\* generateWallet (wallet.ts:80) and getAccounts of at least one account
\* (wallet.ts:40)
WalletWriters ==
    Rederivers
        \cup {id \in DOMAIN tasks : tasks[id].call.op = "generateWallet"}
        \cup {id \in DOMAIN tasks :
                 tasks[id].call.op = "getAccounts" /\ Listed(id) > 0}
LastWriter ==
    CHOOSE id \in WalletWriters : \A other \in WalletWriters : other <= id
\* the account that the call id assigned
Written(id) ==
    IF id \in Rederivers THEN Generated(id)
    ELSE IF tasks[id].call.op = "generateWallet"
         THEN Derived(tasks[id].call.index)
         ELSE Derived(Listed(id) - 1)

\* the call id is one of getWallet, initWallet and updateWallet and re-derived
Racing(id) ==
    tasks[id].call.op \in ActiveSelectionOps /\ tasks[id].rederives # Null
\* the only two calls made re-derived, for different (index, chainId)
TwoRacing ==
    /\ ~awaited
    /\ Len(tasks) = 2
    /\ Racing(1)
    /\ Racing(2)
    /\ <<tasks[1].rederives.index, tasks[1].rederives.chainId>>
          # <<tasks[2].rederives.index, tasks[2].rederives.chainId>>
\* the second of them started while the first was suspended
Interleaved == TwoRacing /\ 1 \in tasks[2].overlaps
BothReturned == tasks[1].status = "returned" /\ tasks[2].status = "returned"
\* account, STARK key pair and selection are those the call id derives
BelongsTo(id) ==
    /\ wallet = Generated(id)
    /\ starkKeyPair = keyFromPrivate(privateKey(Generated(id)))
    /\ activeIndex = tasks[id].rederives.index
    /\ activeChainId = tasks[id].rederives.chainId

C16_ReturnsOwnAccount ==
    \A id \in DOMAIN tasks :
        (tasks[id].call.op = "updateWallet" /\ tasks[id].status = "returned")
            => tasks[id].value = Derived(tasks[id].call.index)

\* C16 (amended): an updateWallet(i, c) call returns the account that is
\* cached when it resumes after its await, the account of the call that
\* assigned it last: its own when no other call assigned the account since
\* it was suspended, the account of index j when an updateWallet(j, d) call
\* of a supported chain d did (a call of an unsupported chain throws before
\* it assigns the account).
C16_ReturnsCachedAccount ==
    [][\A id \in DOMAIN tasks :
          (/\ tasks[id].call.op = "updateWallet"
           /\ tasks[id].status = "pending"
           /\ tasks'[id].status = "returned")
              => (/\ tasks'[id].value = wallet
                  /\ tasks'[id].value = Written(LastWriter))]_vars

C16_Witness ==
    /\ Len(tasks) = 2
    /\ tasks[1].call.op = "updateWallet"
    /\ tasks[2].call.op = "updateWallet"
    /\ tasks[1].call.index # tasks[2].call.index
    /\ tasks[1].status = "returned"
    /\ tasks[1].value = Derived(tasks[2].call.index)
    /\ tasks[2].status = "returned"
    /\ tasks[2].value = Derived(tasks[2].call.index)

\* getStakwareKeyPair and the functions that await it
StarkGetters ==
    {"getStakwareKeyPair", "getStarkKey", "starkwareSign", "starkwareVerify"}
\* the first call is one of them, made with nothing cached
StarkFirst == Len(tasks) >= 1 /\ tasks[1].call.op \in StarkGetters
\* how many of frames are suspended in fn
Suspended(frames, fn) ==
    Cardinality({i \in DOMAIN frames : frames[i].fn = fn})
\* what the first call returns from the STARK key pair it awaited
StarkResult(keyPair) ==
    CASE tasks[1].call.op = "getStakwareKeyPair" -> keyPair
      [] tasks[1].call.op = "getStarkKey" -> [starkKey |-> keyPair.stark]
      [] tasks[1].call.op = "starkwareSign" ->
            starkSign(keyPair, tasks[1].call.msg)
      [] tasks[1].call.op = "starkwareVerify" ->
            starkVerify(keyPair, tasks[1].call.msg, tasks[1].call.sig)

\* C17: getStakwareKeyPair() (and so getStarkKey, starkwareSign and
\* starkwareVerify) called with no account and no STARK key pair cached
\* eventually returns: generateStarkwareKeyPair is entered twice and
\* updateWallet once, and when no other call runs meanwhile the call ends
\* with the account of the default index and chain cached and the cached
\* STARK key pair the one of that account, which the call returns or uses.
C17_StarkKeyPairCallReturns ==
    /\ [](StarkFirst =>
            /\ Suspended(tasks[1].frames, "generateStarkwareKeyPair") <= 2
            /\ Suspended(tasks[1].frames, "updateWallet") <= 1
            /\ Suspended(tasks[1].frames, "getWallet") <= 1
            /\ Suspended(tasks[1].frames, "getStakwareKeyPair") <= 1
            /\ tasks[1].status # "threw")
    /\ [](StarkFirst => <>(StarkFirst /\ tasks[1].status = "returned"))
    /\ []((StarkFirst /\ Len(tasks) = 1 /\ tasks[1].status = "returned") =>
            /\ activeIndex = DEFAULT_ACTIVE_INDEX
            /\ activeChainId = DEFAULT_CHAIN_ID
            /\ wallet = Derived(DEFAULT_ACTIVE_INDEX)
            /\ starkKeyPair = keyFromPrivate(privateKey(wallet))
            /\ tasks[1].value = StarkResult(starkKeyPair))

C17_Witness ==
    /\ Len(tasks) = 1
    /\ tasks[1].call.op = "getStakwareKeyPair"
    /\ tasks[1].status = "returned"
    /\ tasks[1].value = keyFromPrivate(privateKey(Derived(DEFAULT_ACTIVE_INDEX)))
    /\ wallet = Derived(DEFAULT_ACTIVE_INDEX)

====
